---------------------------- MODULE Spec2Model ----------------------------
(***************************************************************************)
(* State-machine model of the editor's Console component (console.tsx)     *)
(* and of the assets-browser MeshItemHandler (handlers/mesh.tsx).          *)
(*                                                                         *)
(* Three specifications share the variables:                               *)
(*   ConsoleSpec  the Console component's life cycle and log calls         *)
(*   PreviewSpec  MeshItemHandler.computePreview / _computePreview         *)
(*   Spec         MeshItemHandler.onDropInPreview and the asynchronous     *)
(*                _configureMaterial chains it starts                      *)
(***************************************************************************)
EXTENDS Naturals, Sequences, FiniteSets, TLC

VARIABLES
    \* ---- Console (console.tsx) ----
    lifecycle,           \* "constructed" | "rendered" | "mounted" | "unmounted"
    terminalCommonDiv,   \* _terminalCommonDiv # null
    terminalWebPackDiv,  \* _terminalWebPackDiv # null
    terminalCommon,      \* _terminalCommon:  [open, disposed, buf]
    terminalWebPack,     \* _terminalWebPack: [open, disposed, buf]
    tabId,               \* state.tabId
    stdout,              \* what reached console.info/warn/error/log
    logCalls,            \* number of logInfo/logWarning/logError/logRaw calls made
    lastLog              \* the IConsoleLog of the most recent of those calls

consoleVars == <<lifecycle, terminalCommonDiv, terminalWebPackDiv, terminalCommon,
                 terminalWebPack, tabId, stdout, logCalls, lastLog>>

VARIABLES
    \* ---- MeshItemHandler preview (mesh.tsx) ----
    previewRequests,     \* the createScenePreview requests sent to the worker, in call order
    previewImage,        \* state.previewImage
    previewReturn,       \* what the last computePreview call returned
    lastResolved         \* index of the request whose continuation ran last (0: none)

previewVars == <<previewRequests, previewImage, previewReturn, lastResolved>>

VARIABLES
    \* ---- MeshItemHandler.onDropInPreview (mesh.tsx) ----
    asset,               \* the file at props.absolutePath ("" until the loader first reads it)
    drops,               \* the onDropInPreview calls: [pc, pick, trace]
    cursor,              \* position of the running forEach
    meshes,              \* per drop, result.meshes
    mats,                \* per drop, the materials the loader created
    skeletons,           \* per drop, result.skeletons (part of scene.skeletons)
    transformNodes,      \* per drop, result.transformNodes
    particleSystems,     \* per drop, result.particleSystems
    chain,               \* per drop and material, the pending _configureMaterial call
    texPending,          \* per drop and material, the pending GLTFTools.TexturesToFiles calls
    files,               \* the material files on disk: path -> content
    textureFiles,        \* the materials whose textures GLTFTools.TexturesToFiles wrote
    browserRefreshes,    \* number of editor.assetsBrowser.refresh() calls
    written              \* history: every writeJSON performed

meshVars == <<asset, drops, cursor, meshes, mats, skeletons, transformNodes,
              particleSystems, chain, texPending, files, textureFiles,
              browserRefreshes, written>>

vars == <<consoleVars, previewVars, meshVars>>

nonConsoleVars == <<previewVars, meshVars>>
nonPreviewVars == <<consoleVars, meshVars>>
nonMeshVars == <<consoleVars, previewVars>>

-----------------------------------------------------------------------------
(* Bounds *)
MaxLogCalls == 2
MaxPreviews == 3
MaxDrops == 2

-----------------------------------------------------------------------------
(* Console *)

\* enum ConsoleLogType
Info == 0
Warning == 1
Error == 2
Raw == 3
ConsoleLogType == {Info, Warning, Error, Raw}

\* enum ConsoleLayer; LayerUndefined is an omitted `layer` argument
Common == 0
WebPack == 1
LayerUndefined == 2
ConsoleLayer == {Common, WebPack}

Messages == {"ready", " build ok "}

\* String.prototype.trim on the messages of the model
Trim(m) == IF m = " build ok " THEN "build ok" ELSE m

NullTerminal == [open |-> FALSE, disposed |-> FALSE, buf |-> <<>>]

\* _createTerminal: new Terminal(...), loadAddon, open
createTerminal == [open |-> TRUE, disposed |-> FALSE, buf |-> <<>>]

\* the console state AddLog works on
ConsoleState == [tc |-> terminalCommon, tw |-> terminalWebPack, out |-> stdout]

\* log.layer ?? ConsoleLayer.Common
ResolveLayer(layer) == IF layer = LayerUndefined THEN Common ELSE layer

LinePrefix(type) ==
    CASE type = Info -> "[INFO]: "
      [] type = Warning -> "[WARN]: "
      [] type = Error -> "[ERROR]: "

StreamOf(type) ==
    CASE type = Info -> "info"
      [] type = Warning -> "warn"
      [] type = Error -> "error"
      [] type = Raw -> "log"

\* faulty variant: every line gets the [INFO] prefix
TerminalEntryInfoPrefix(log) ==
    IF log.type = Raw
    THEN [op |-> "write", text |-> log.message]
    ELSE [op |-> "writeln", text |-> "[INFO]: " \o log.message]

\* what _addLog hands to the terminal: writeln(prefix + message) or write(message)
TerminalEntry(log) ==
    IF log.type = Raw
    THEN [op |-> "write", text |-> log.message]
    ELSE [op |-> "writeln", text |-> LinePrefix(log.type) \o log.message]

\* what _addLog hands to the standard console
StdoutEntry(log) ==
    [stream |-> StreamOf(log.type),
     text |-> IF log.type = Raw THEN Trim(log.message) ELSE log.message]

\* Terminal.write / writeln. xterm does not define writes to a disposed terminal:
\* the entry may or may not reach the buffer.
TerminalWrite(t, e) ==
    IF t.disposed
    THEN {t, [t EXCEPT !.buf = Append(@, e)]}
    ELSE {[t EXCEPT !.buf = Append(@, e)]}

\* Console._addLog: the set of console states it may leave
AddLog(st, log) ==
    LET onCommon == ResolveLayer(log.layer) = Common
        terminal == IF onCommon THEN st.tc ELSE st.tw
    IN  IF ~terminal.open
        THEN {st}
        ELSE {[tc |-> IF onCommon THEN t ELSE st.tc,
               tw |-> IF onCommon THEN st.tw ELSE t,
               out |-> Append(st.out, StdoutEntry(log))] :
                 t \in TerminalWrite(terminal, TerminalEntry(log))}

SetConsoleState(st) ==
    /\ terminalCommon' = st.tc
    /\ terminalWebPack' = st.tw
    /\ stdout' = st.out

ConsoleInit ==
    /\ lifecycle = "constructed"
    /\ terminalCommonDiv = FALSE
    /\ terminalWebPackDiv = FALSE
    /\ terminalCommon = NullTerminal
    /\ terminalWebPack = NullTerminal
    /\ tabId = "common"
    /\ stdout = <<>>
    /\ logCalls = 0
    /\ lastLog = [type |-> Info, message |-> "ready", layer |-> LayerUndefined]

\* Console.render: the Tabs attach the two panel divs through _refHandler
render ==
    /\ lifecycle = "constructed"
    /\ lifecycle' = "rendered"
    /\ \E c \in BOOLEAN, w \in BOOLEAN :
         /\ terminalCommonDiv' = c
         /\ terminalWebPackDiv' = w
    /\ UNCHANGED <<terminalCommon, terminalWebPack, tabId, stdout, logCalls, lastLog>>
    /\ UNCHANGED nonConsoleVars

\* Console.componentDidMount
componentDidMount ==
    /\ lifecycle = "rendered"
    /\ lifecycle' = "mounted"
    /\ IF ~terminalCommonDiv \/ ~terminalWebPackDiv
       THEN UNCHANGED <<terminalCommon, terminalWebPack, stdout>>
       ELSE LET st0 == [tc |-> createTerminal, tw |-> createTerminal, out |-> stdout]
            IN  \E st1 \in AddLog(st0, [type |-> Info, message |-> "ready", layer |-> Common]) :
                \E st2 \in AddLog(st1, [type |-> Info, message |-> "ready", layer |-> WebPack]) :
                    SetConsoleState(st2)
    /\ UNCHANGED <<terminalCommonDiv, terminalWebPackDiv, tabId, logCalls, lastLog>>
    /\ UNCHANGED nonConsoleVars

\* Console.componentWillUnmount
componentWillUnmount ==
    /\ lifecycle = "mounted"
    /\ lifecycle' = "unmounted"
    /\ terminalCommon' = IF terminalCommon.open
                         THEN [terminalCommon EXCEPT !.disposed = TRUE]
                         ELSE terminalCommon
    /\ terminalWebPack' = IF terminalWebPack.open
                          THEN [terminalWebPack EXCEPT !.disposed = TRUE]
                          ELSE terminalWebPack
    /\ UNCHANGED <<terminalCommonDiv, terminalWebPackDiv, tabId, stdout, logCalls, lastLog>>
    /\ UNCHANGED nonConsoleVars

\* the body shared by logInfo, logWarning, logError and logRaw
LogCall(type, message, layer) ==
    /\ logCalls < MaxLogCalls
    /\ logCalls' = logCalls + 1
    /\ lastLog' = [type |-> type, message |-> message, layer |-> layer]
    /\ \E st \in AddLog(ConsoleState, [type |-> type, message |-> message, layer |-> layer]) :
         SetConsoleState(st)
    /\ UNCHANGED <<lifecycle, terminalCommonDiv, terminalWebPackDiv, tabId>>
    /\ UNCHANGED nonConsoleVars

logInfo ==
    \E m \in Messages, layer \in ConsoleLayer \cup {LayerUndefined} : LogCall(Info, m, layer)

logWarning ==
    \E m \in Messages, layer \in ConsoleLayer \cup {LayerUndefined} : LogCall(Warning, m, layer)

logError ==
    \E m \in Messages, layer \in ConsoleLayer \cup {LayerUndefined} : LogCall(Error, m, layer)

logRaw ==
    \E m \in Messages, layer \in ConsoleLayer \cup {LayerUndefined} : LogCall(Raw, m, layer)

\* Console.setActiveTab (the resize it schedules only touches the layout)
setActiveTab ==
    /\ lifecycle \in {"mounted"}
    /\ \E id \in {"common", "webpack"} : id # tabId /\ tabId' = id
    /\ UNCHANGED <<lifecycle, terminalCommonDiv, terminalWebPackDiv, terminalCommon,
                   terminalWebPack, stdout, logCalls, lastLog>>
    /\ UNCHANGED nonConsoleVars

\* Console.clear(this.state.tabId), the toolbar's Clear button
clear ==
    /\ lifecycle = "mounted"
    /\ \/ /\ tabId = "common"
          /\ terminalCommon.open /\ terminalCommon.buf # <<>>
          /\ terminalCommon' = [terminalCommon EXCEPT !.buf = <<>>]
          /\ UNCHANGED terminalWebPack
       \/ /\ tabId = "webpack"
          /\ terminalWebPack.open /\ terminalWebPack.buf # <<>>
          /\ terminalWebPack' = [terminalWebPack EXCEPT !.buf = <<>>]
          /\ UNCHANGED terminalCommon
    /\ UNCHANGED <<lifecycle, terminalCommonDiv, terminalWebPackDiv, tabId, stdout,
                   logCalls, lastLog>>
    /\ UNCHANGED nonConsoleVars

ConsoleNext ==
    \/ render
    \/ componentDidMount
    \/ componentWillUnmount
    \/ logInfo
    \/ logWarning
    \/ logError
    \/ logRaw
    \/ setActiveTab
    \/ clear

-----------------------------------------------------------------------------
(* Claim C1 *)

BufOf(layer) == IF layer = Common THEN terminalCommon.buf ELSE terminalWebPack.buf
TerminalOf(layer) == IF layer = Common THEN terminalCommon ELSE terminalWebPack
BufOfNext(layer) == IF layer = Common THEN terminalCommon'.buf ELSE terminalWebPack'.buf
OtherLayer(layer) == IF layer = Common THEN WebPack ELSE Common

\* a step that is one call of logInfo, logWarning or logError
IsPrefixedLogCall == logCalls' = logCalls + 1 /\ lastLog'.type \in {Info, Warning, Error}

\* the step wrote exactly the prefixed line to the requested layer's terminal, nothing
\* to the other terminal, and mirrored the message once to the console stream
WroteOneLine ==
    LET L == ResolveLayer(lastLog'.layer)
    IN  /\ BufOfNext(L) = Append(BufOf(L), [op |-> "writeln",
                                         text |-> LinePrefix(lastLog'.type) \o lastLog'.message])
        /\ BufOfNext(OtherLayer(L)) = BufOf(OtherLayer(L))
        /\ stdout' = Append(stdout, [stream |-> StreamOf(lastLog'.type),
                                     text |-> lastLog'.message])

\* C1 (as stated): at any point after the Console is constructed, every call to logInfo,
\* logWarning or logError writes exactly one prefixed line to the terminal of the
\* requested layer (Common by default), nothing to the other terminal, and mirrors the
\* message exactly once to the standard console stream.
C1_EveryCallWrites == [][IsPrefixedLogCall => WroteOneLine]_vars

\* C1 (amended): the same holds for every call made while the requested layer's terminal
\* exists and is not disposed (componentDidMount created it, componentWillUnmount has not
\* run); a call made while that terminal is still null writes nothing to either terminal
\* and mirrors nothing to the console stream.
C1_CallWritesWhenTerminalExists ==
    [][IsPrefixedLogCall =>
        LET t == TerminalOf(ResolveLayer(lastLog'.layer))
        IN  /\ (t.open /\ ~t.disposed) => WroteOneLine
            /\ ~t.open => UNCHANGED <<terminalCommon, terminalWebPack, stdout>>]_vars

\* C1 witness: a warning sent to the WebPack layer of a mounted console reached that
\* terminal and the console stream.
C1_Witness ==
    /\ lifecycle = "mounted"
    /\ logCalls > 0
    /\ lastLog.type = Warning /\ lastLog.layer = WebPack
    /\ Len(terminalWebPack.buf) = 2
    /\ terminalWebPack.buf[2] = [op |-> "writeln", text |-> "[WARN]: " \o lastLog.message]
    /\ stdout[Len(stdout)] = [stream |-> "warn", text |-> lastLog.message]

-----------------------------------------------------------------------------
(* MeshItemHandler: computePreview *)

\* the paths createScenePreview may resolve with
PreviewPaths == {"preview-a.png", "preview-b.png"}

NoImage == [src |-> ""]

\* <img src={path} .../>
PreviewImg(path) == [src |-> path]

PreviewInit ==
    /\ previewRequests = <<>>
    /\ previewImage = NoImage
    /\ previewReturn = "none"
    /\ lastResolved = 0

\* MeshItemHandler.computePreview: starts _computePreview, which runs up to its await on
\* Workers.ExecuteFunction, and returns the logo with the spinner
computePreview ==
    /\ Len(previewRequests) < MaxPreviews
    /\ previewRequests' = Append(previewRequests, [st |-> "pending", path |-> ""])
    /\ previewReturn' = "placeholder"
    /\ UNCHANGED <<previewImage, lastResolved>>
    /\ UNCHANGED nonPreviewVars

\* faulty variant: a stale request is dropped: only the latest request's image is stored
SetPreviewStateIfLatest(r, path) ==
    IF r = Len(previewRequests) THEN PreviewImg(path) ELSE previewImage

\* the this.setState({ previewImage }) of _computePreview, run for request r resolved with path
SetPreviewState(r, path) == PreviewImg(path)

\* the worker answers request r: _computePreview resumes after its await
createScenePreviewResolves(r) ==
    /\ previewRequests[r].st = "pending"
    /\ \E path \in PreviewPaths :
         /\ previewRequests' = [previewRequests EXCEPT ![r] = [st |-> "resolved", path |-> path]]
         /\ previewImage' = SetPreviewState(r, path)
    /\ lastResolved' = r
    /\ UNCHANGED previewReturn
    /\ UNCHANGED nonPreviewVars

\* the worker call fails: the promise of _computePreview rejects, nobody handles it
createScenePreviewRejects(r) ==
    /\ previewRequests[r].st = "pending"
    /\ previewRequests' = [previewRequests EXCEPT ![r].st = "rejected"]
    /\ UNCHANGED <<previewImage, previewReturn, lastResolved>>
    /\ UNCHANGED nonPreviewVars

PreviewNext ==
    \/ computePreview
    \/ \E r \in DOMAIN previewRequests : createScenePreviewResolves(r)
    \/ \E r \in DOMAIN previewRequests : createScenePreviewRejects(r)

-----------------------------------------------------------------------------
(* Claim C5 *)

\* a step that is one call of computePreview
IsComputePreviewCall == previewReturn' = "placeholder" /\ previewRequests' # previewRequests
                        /\ Len(previewRequests') > Len(previewRequests)

\* C5: every computePreview call issues exactly one createScenePreview request and
\* returns the placeholder without waiting (the stored preview and the other requests are
\* left alone); a request resolving with path p sets previewImage to the image of p, with
\* no retry (a resolved or rejected request never goes back to pending, no request is
\* added) and no cancellation; so the stored preview is always the one of the request
\* that resolved last, whichever was requested last.
C5_PreviewIsLastResolved ==
    /\ [][ /\ IsComputePreviewCall =>
                /\ previewRequests' = Append(previewRequests, [st |-> "pending", path |-> ""])
                /\ previewImage' = previewImage
           /\ \A r \in DOMAIN previewRequests :
                /\ (previewRequests[r].st = "pending" /\ previewRequests'[r].st = "resolved") =>
                      /\ previewImage' = PreviewImg(previewRequests'[r].path)
                      /\ Len(previewRequests') = Len(previewRequests)
                /\ previewRequests[r].st # "pending" => previewRequests'[r] = previewRequests[r]
         ]_vars
    /\ [](lastResolved # 0 =>
            /\ previewRequests[lastResolved].st = "resolved"
            /\ previewImage = PreviewImg(previewRequests[lastResolved].path))
    /\ [](lastResolved = 0 => previewImage = NoImage)

\* C5 witness: two requests in flight resolved out of order; the stored preview is the
\* one of the first request (resolved last), not of the request made last.
C5_Witness ==
    /\ Len(previewRequests) = 2
    /\ previewRequests[1].st = "resolved" /\ previewRequests[2].st = "resolved"
    /\ previewRequests[1].path # previewRequests[2].path
    /\ lastResolved = 1
    /\ previewImage = PreviewImg(previewRequests[1].path)
    /\ previewReturn = "placeholder"

-----------------------------------------------------------------------------
(* MeshItemHandler: the assets a handler may stand for *)

\* Strings the handler builds names from are sequences of characters (a token such as
\* ".material" or a random id's tag counts as one character).
ReservedChars == {"/", "?", "<", ">", "\\", ":", "*", "|", "\""}

RECURSIVE TrimRepeated(_)
\* filenamify's trimRepeated: a run of replacement characters becomes one
TrimRepeated(str) ==
    IF Len(str) < 2 THEN str
    ELSE IF str[1] = "!" /\ str[2] = "!" THEN TrimRepeated(Tail(str))
    ELSE <<str[1]>> \o TrimRepeated(Tail(str))

\* filenamify(string): every reserved character is replaced by "!", runs are trimmed
filenamify(str) ==
    TrimRepeated([i \in 1..Len(str) |-> IF str[i] \in ReservedChars THEN "!" ELSE str[i]])

\* basename(this.props.absolutePath): the asset files of the model
Assets == {"plain.babylon", "multi.babylon", "holes.babylon", "scene.glb"}

\* extname(absolutePath).toLowerCase() is ".glb" or ".gltf"
IsGltf(a) == a = "scene.glb"

AbsDir == "/project/assets/"
RelDir == "assets/"

\* join(dirname(this.props.absolutePath), filename)
AbsPath(filename) == <<AbsDir>> \o filename
\* join(dirname(this.props.relativePath), filename)
RelPath(filename) == <<RelDir>> \o filename

NoMaterial == ""

\* result.meshes as the loader returns them
AssetMeshes(a) ==
    CASE a = "plain.babylon" ->
           <<[id |-> <<"box">>, isMesh |-> TRUE, material |-> "wood", geometry |-> TRUE, parent |-> FALSE],
             [id |-> <<"lid">>, isMesh |-> TRUE, material |-> "wood", geometry |-> FALSE, parent |-> TRUE]>>
      [] a = "multi.babylon" ->
           <<[id |-> <<"body">>, isMesh |-> TRUE, material |-> "multi", geometry |-> TRUE, parent |-> FALSE]>>
      [] a = "holes.babylon" ->
           <<[id |-> <<"body">>, isMesh |-> TRUE, material |-> "multi", geometry |-> TRUE, parent |-> FALSE],
             [id |-> <<"head">>, isMesh |-> TRUE, material |-> "skin", geometry |-> TRUE, parent |-> TRUE]>>
      [] a = "scene.glb" ->
           <<[id |-> <<"node">>, isMesh |-> TRUE, material |-> "pbr", geometry |-> TRUE, parent |-> FALSE],
             [id |-> <<"inst">>, isMesh |-> FALSE, material |-> "pbr", geometry |-> FALSE, parent |-> TRUE],
             [id |-> <<"empty">>, isMesh |-> TRUE, material |-> NoMaterial, geometry |-> FALSE, parent |-> TRUE]>>

\* a material as the loader creates it; subs holds the names of the sub-materials of a
\* MultiMaterial, NoMaterial standing for a null entry
LoaderMaterial(name, id, multi, subs, hasTexture) ==
    [name |-> name, id |-> id, multi |-> multi, subs |-> subs,
     editorDone |-> FALSE, editorPath |-> <<>>, originalSourceFile |-> <<>>,
     hasTexture |-> hasTexture, texDir |-> "loader", texDone |-> FALSE,
     randomIds |-> 0, loaderId |-> id]

\* the materials the loader creates for the asset
AssetMaterials(a) ==
    CASE a = "plain.babylon" ->
           [n \in {"wood"} |-> LoaderMaterial(<<"w", ":", "d">>, <<"1">>, FALSE, <<>>, TRUE)]
      [] a = "multi.babylon" ->
           [n \in {"multi", "skin", "eyes"} |->
              CASE n = "multi" -> LoaderMaterial(<<"m", "m">>, <<"7">>, TRUE, <<"skin", "eyes">>, FALSE)
                [] n = "skin" -> LoaderMaterial(<<"s", "k">>, <<"8">>, FALSE, <<>>, TRUE)
                [] n = "eyes" -> LoaderMaterial(<<"e", "y">>, <<"9">>, FALSE, <<>>, FALSE)]
      [] a = "holes.babylon" ->
           [n \in {"multi", "skin", "eyes"} |->
              CASE n = "multi" -> LoaderMaterial(<<"m", "m">>, <<"7">>, TRUE, <<"skin", NoMaterial, "eyes">>, FALSE)
                [] n = "skin" -> LoaderMaterial(<<"s", "k">>, <<"8">>, FALSE, <<>>, TRUE)
                [] n = "eyes" -> LoaderMaterial(<<"e", "y">>, <<"9">>, FALSE, <<>>, FALSE)]
      [] a = "scene.glb" ->
           [n \in {"pbr"} |-> LoaderMaterial(<<"p", "/", "/", "b">>, <<"0">>, FALSE, <<>>, TRUE)]

\* a skeleton id: .babylon files carry numbers, the glTF loader gives strings
NumberId(n) == [type |-> "number", v |-> n]
StringId(n) == [type |-> "string", v |-> n]

\* result.skeletons as the loader returns them: the loader's id and the bones' ids
AssetSkeletons(a) ==
    CASE a = "plain.babylon" -> <<[id |-> NumberId(0), bones |-> <<<<"b0">>, <<"b1">>>>]>>
      [] a = "multi.babylon" -> <<[id |-> NumberId(1), bones |-> <<<<"b0">>>>],
                                  [id |-> NumberId(0), bones |-> <<>>]>>
      [] a = "holes.babylon" -> <<>>
      [] a = "scene.glb" -> <<[id |-> StringId(0), bones |-> <<<<"joint">>>>]>>

\* result.transformNodes: whether each node has a parent
AssetTransformNodes(a) ==
    CASE a = "scene.glb" -> <<[id |-> <<"root">>, parent |-> FALSE],
                              [id |-> <<"child">>, parent |-> TRUE]>>
      [] a = "plain.babylon" -> <<[id |-> <<"pivot">>, parent |-> FALSE]>>
      [] OTHER -> <<>>

\* result.particleSystems: their ids
AssetParticleSystems(a) ==
    CASE a = "plain.babylon" -> <<<<"smoke">>>>
      [] OTHER -> <<>>

\* Tools.RandomId(): a fresh identifier, here tagged by the object that receives it and
\* by how many random ids that object got before
RandomId(tag, n) == <<"#", tag, ToString(n)>>

Tag(d, kind, key) == "d" \o ToString(d) \o "." \o kind \o "." \o key

-----------------------------------------------------------------------------
(* MeshItemHandler: onDropInPreview *)

EmptyFn == [x \in {} |-> x]

Drops == DOMAIN drops

MeshInit ==
    /\ asset = ""
    /\ drops = <<>>
    /\ cursor = 1
    /\ meshes = <<>>
    /\ mats = <<>>
    /\ skeletons = <<>>
    /\ transformNodes = <<>>
    /\ particleSystems = <<>>
    /\ chain = <<>>
    /\ texPending = <<>>
    /\ files = EmptyFn
    /\ textureFiles = {}
    /\ browserRefreshes = 0
    /\ written = {}

\* faulty variant: the skeletons are configured before the transform nodes
ConfigureOrderSkeletonsFirst ==
    <<"meshes", "skeletons", "transformNodes", "particleSystems", "refresh">>

\* the order of the calls onDropInPreview makes once the import has resolved
ConfigureOrder == <<"meshes", "transformNodes", "skeletons", "particleSystems", "refresh">>

SyncPcs == {ConfigureOrder[i] : i \in DOMAIN ConfigureOrder}

\* a drop is running its synchronous part: no other callback can run meanwhile
Busy == \E d \in Drops : drops[d].pc \in SyncPcs

\* the call that follows `stage` in onDropInPreview ("done" after the last)
StageAfter(stage) ==
    LET i == CHOOSE j \in DOMAIN ConfigureOrder : ConfigureOrder[j] = stage
    IN  IF i = Len(ConfigureOrder) THEN "done" ELSE ConfigureOrder[i + 1]

\* stage `what` of drop d returned: onDropInPreview goes on with the next call
Advance(d, what) ==
    /\ drops' = [drops EXCEPT ![d].pc = StageAfter(drops[d].pc),
                              ![d].trace = @ \o what]
    /\ cursor' = 1

\* onDropInPreview up to its await: scene.stopAllAnimations(), SceneLoader.ImportMeshAsync
onDropInPreview ==
    /\ ~Busy
    /\ Len(drops) < MaxDrops
    /\ \E pick \in BOOLEAN :
         drops' = Append(drops, [pc |-> "importing", pick |-> pick,
                                 trace |-> <<"stopAllAnimations">>])
    /\ meshes' = Append(meshes, <<>>)
    /\ mats' = Append(mats, EmptyFn)
    /\ skeletons' = Append(skeletons, <<>>)
    /\ transformNodes' = Append(transformNodes, <<>>)
    /\ particleSystems' = Append(particleSystems, <<>>)
    /\ chain' = Append(chain, EmptyFn)
    /\ texPending' = Append(texPending, EmptyFn)
    /\ UNCHANGED <<asset, cursor, files, textureFiles, browserRefreshes, written>>
    /\ UNCHANGED nonMeshVars

IdleChain == [pc |-> "idle", file |-> "", path |-> <<>>, sub |-> 0, content |-> <<>>,
              existedAtCall |-> FALSE, sawFile |-> FALSE, refreshed |-> FALSE]

\* SceneLoader.ImportMeshAsync reads the file and adds its objects to the scene
loaderAddsObjects(d) ==
    /\ ~Busy
    /\ drops[d].pc = "importing"
    /\ \E a \in (IF asset = "" THEN Assets ELSE {asset}) :
         /\ asset' = a
         /\ meshes' = [meshes EXCEPT ![d] =
                [i \in DOMAIN AssetMeshes(a) |->
                    [id |-> AssetMeshes(a)[i].id, isMesh |-> AssetMeshes(a)[i].isMesh,
                     material |-> AssetMeshes(a)[i].material,
                     geometry |-> AssetMeshes(a)[i].geometry, parent |-> AssetMeshes(a)[i].parent,
                     originalSourceFile |-> <<>>, basePoseMatrix |-> FALSE, shifted |-> FALSE,
                     geometryIds |-> 0, randomIds |-> 0, loaderId |-> AssetMeshes(a)[i].id]]]
         /\ mats' = [mats EXCEPT ![d] = AssetMaterials(a)]
         /\ chain' = [chain EXCEPT ![d] = [n \in DOMAIN AssetMaterials(a) |-> IdleChain]]
         /\ texPending' = [texPending EXCEPT ![d] = [n \in DOMAIN AssetMaterials(a) |-> <<>>]]
         /\ skeletons' = [skeletons EXCEPT ![d] =
                [i \in DOMAIN AssetSkeletons(a) |->
                    [id |-> AssetSkeletons(a)[i].id, configured |-> FALSE,
                     bones |-> [b \in DOMAIN AssetSkeletons(a)[i].bones |->
                                  [id |-> AssetSkeletons(a)[i].bones[b], originalId |-> <<>>,
                                   loaderId |-> AssetSkeletons(a)[i].bones[b]]]]]]
         /\ transformNodes' = [transformNodes EXCEPT ![d] =
                [i \in DOMAIN AssetTransformNodes(a) |->
                    [id |-> AssetTransformNodes(a)[i].id, parent |-> AssetTransformNodes(a)[i].parent,
                     shifted |-> FALSE]]]
         /\ particleSystems' = [particleSystems EXCEPT ![d] =
                [i \in DOMAIN AssetParticleSystems(a) |-> [id |-> AssetParticleSystems(a)[i]]]]
    /\ drops' = [drops EXCEPT ![d].pc = "loaded"]
    /\ UNCHANGED <<cursor, files, textureFiles, browserRefreshes, written>>
    /\ UNCHANGED nonMeshVars

\* SceneLoader.ImportMeshAsync rejects: the await in onDropInPreview throws
ImportMeshAsyncRejects(d) ==
    /\ ~Busy
    /\ drops[d].pc \in {"importing", "loaded"}
    /\ drops' = [drops EXCEPT ![d].pc = "failed"]
    /\ UNCHANGED <<asset, cursor, meshes, mats, skeletons, transformNodes, particleSystems,
                   chain, texPending, files, textureFiles, browserRefreshes, written>>
    /\ UNCHANGED nonMeshVars

\* SceneLoader.ImportMeshAsync resolves: onDropInPreview resumes after its await
ImportMeshAsyncResolves(d) ==
    /\ ~Busy
    /\ drops[d].pc = "loaded"
    /\ drops' = [drops EXCEPT ![d].pc = ConfigureOrder[1]]
    /\ cursor' = 1
    /\ UNCHANGED <<asset, meshes, mats, skeletons, transformNodes, particleSystems,
                   chain, texPending, files, textureFiles, browserRefreshes, written>>
    /\ UNCHANGED nonMeshVars

-----------------------------------------------------------------------------
(* MeshItemHandler: _configureMaterial, _createMaterialFile, _configureMaterialTextures *)

\* faulty variant: the file name is built from the material's name alone
materialFilenameWithoutId(m) == filenamify(m.name \o <<".material">>)

\* filenamify(`${material.name}-${material.id}.material`) (name and id are never null
\* for the materials of the model)
materialFilename(m) == filenamify(m.name \o <<"-">> \o m.id \o <<".material">>)

\* material.serialize(): drop and material tell which object was serialized
Serialize(d, n, m) == [drop |-> d, material |-> n, name |-> m.name, id |-> m.id]

\* faulty variant: the existence check is skipped
PathExistsNever(path) == FALSE

\* what `await pathExists(materialPath)` yields
PathExists(path) == path \in DOMAIN files

\* the textures _configureMaterialTextures works on: those not yet marked editorDone
ActiveTextures(m) == m.hasTexture /\ ~m.texDone

\* _configureMaterialTextures up to its await, on the materials ms of one drop: the
\* texture gets a name (and url) relative to the project; glTF textures are marked done
configureMaterialTextures(ms, n, isGltf) ==
    IF ActiveTextures(ms[n])
    THEN [ms EXCEPT ![n].texDir = "relative", ![n].texDone = isGltf]
    ELSE ms

\* the GLTFTools.TexturesToFiles calls that _configureMaterialTextures(n) leaves pending
TextureCalls(ms, n, isGltf) == IF isGltf THEN <<[material |-> n, carries |-> ActiveTextures(ms[n])]>> ELSE <<>>

\* _createMaterialFile(material f) up to `await pathExists`, called by a chain at
\* iteration sub of its sub-materials loop (0: before the loop)
createMaterialFile(ms, f, sub) ==
    LET filename == materialFilename(ms[f])
    IN  [ms |-> [ms EXCEPT ![f].editorPath = RelPath(filename)],
         ch |-> [pc |-> "pathExists", file |-> f, path |-> AbsPath(filename), sub |-> sub,
                 content |-> <<>>, existedAtCall |-> AbsPath(filename) \in DOMAIN files,
                 sawFile |-> FALSE, refreshed |-> FALSE],
         tex |-> <<>>, refresh |-> 0]

\* the chain ends; refresh is 1 when it ends with editor.assetsBrowser.refresh()
EndChain(ms, refresh) ==
    [ms |-> ms, ch |-> [IdleChain EXCEPT !.pc = "done", !.refreshed = (refresh = 1)],
     tex |-> <<>>, refresh |-> refresh]

\* the material the sub-materials loop of MultiMaterial n hands to _createMaterialFile
\* at iteration k: `material`, the MultiMaterial itself
LoopFileMaterial(ms, n, k) == n

\* the sub-materials loop of _configureMaterial from iteration k up to its next await
LoopFrom(ms, n, k, isGltf) ==
    IF k > Len(ms[n].subs)
    THEN EndChain(ms, 1)
    ELSE IF ms[n].subs[k] = NoMaterial
    THEN EndChain(ms, 0)
    ELSE LET m == ms[n].subs[k]
             r == createMaterialFile(configureMaterialTextures(ms, m, isGltf),
                                     LoopFileMaterial(ms, n, k), k)
         IN  [r EXCEPT !.tex = TextureCalls(ms, m, isGltf)]

\* metadata.originalSourceFile = metadata.originalSourceFile ?? { id, name, ... }
\* followed by material.id = Tools.RandomId(), for material m of drop d
RenameMaterial(ms, d, m) ==
    [ms EXCEPT ![m].originalSourceFile =
                    IF @ = <<>> THEN <<[id |-> ms[m].id, name |-> ms[m].name]>> ELSE @,
               ![m].id = RandomId(Tag(d, "material", m), ms[m].randomIds),
               ![m].randomIds = @ + 1]

\* faulty variant: the material gets its random id before the existence check has answered
configureMaterialRenameFirst(ms, d, n, isGltf) ==
    IF ms[n].editorDone
    THEN [ms |-> ms, ch |-> chain[d][n], tex |-> <<>>, refresh |-> 0]
    ELSE LET ms1 == [ms EXCEPT ![n].editorDone = TRUE]
             ms2 == IF ~ms[n].multi THEN configureMaterialTextures(ms1, n, isGltf) ELSE ms1
             r == createMaterialFile(ms2, n, 0)
         IN  [r EXCEPT !.tex = IF ~ms[n].multi THEN TextureCalls(ms1, n, isGltf) ELSE <<>>,
                       !.ms = RenameMaterial(r.ms, d, n)]

\* _configureMaterial(material n of drop d) up to its first await
configureMaterial(ms, d, n, isGltf) ==
    IF ms[n].editorDone
    THEN [ms |-> ms, ch |-> chain[d][n], tex |-> <<>>, refresh |-> 0]
    ELSE LET ms1 == [ms EXCEPT ![n].editorDone = TRUE]
             ms2 == IF ~ms[n].multi THEN configureMaterialTextures(ms1, n, isGltf) ELSE ms1
             r == createMaterialFile(ms2, n, 0)
         IN  [r EXCEPT !.tex = IF ~ms[n].multi THEN TextureCalls(ms1, n, isGltf) ELSE <<>>]

RECURSIVE AddTextureCalls(_, _)
\* the pending TexturesToFiles calls of one drop with the calls `tex` added
AddTextureCalls(tp, tex) ==
    IF tex = <<>> THEN tp
    ELSE AddTextureCalls([tp EXCEPT ![Head(tex).material] = Append(@, Head(tex).carries)],
                         Tail(tex))

\* the outcome r of a step of the chain of material n of drop d is stored
ApplyChainStep(d, n, r) ==
    /\ mats' = [mats EXCEPT ![d] = r.ms]
    /\ chain' = [chain EXCEPT ![d][n] = r.ch]
    /\ texPending' = [texPending EXCEPT ![d] = AddTextureCalls(@, r.tex)]
    /\ browserRefreshes' = browserRefreshes + r.refresh

\* `await pathExists(materialPath)` resolves in the chain of material n of drop d
pathExistsResolves(d, n) ==
    LET c == chain[d][n]
    IN  /\ ~Busy
        /\ c.pc = "pathExists"
        /\ IF PathExists(c.path)
           THEN \* _createMaterialFile returns false
                ApplyChainStep(d, n,
                    IF c.sub = 0
                    THEN [EndChain(mats[d], 0) EXCEPT !.ch.existedAtCall = c.existedAtCall]
                    ELSE LoopFrom(mats[d], n, c.sub + 1, IsGltf(asset)))
           ELSE \* writeJSON(materialPath, material.serialize(), ...) is started
                /\ chain' = [chain EXCEPT ![d][n] =
                       [c EXCEPT !.pc = "writeJSON",
                                 !.sawFile = c.path \in DOMAIN files,
                                 !.content = <<Serialize(d, c.file, mats[d][c.file])>>]]
                /\ UNCHANGED <<mats, texPending, browserRefreshes>>
        /\ UNCHANGED <<asset, drops, cursor, meshes, skeletons, transformNodes,
                       particleSystems, files, textureFiles, written>>
        /\ UNCHANGED nonMeshVars

\* `await writeJSON(...)` resolves in the chain of material n of drop d: the file is on
\* disk, _createMaterialFile returns true and _configureMaterial goes on
writeJSONResolves(d, n) ==
    LET c == chain[d][n]
        renamed == RenameMaterial(mats[d], d, IF c.sub = 0 THEN n ELSE mats[d][n].subs[c.sub])
    IN  /\ ~Busy
        /\ c.pc = "writeJSON"
        /\ files' = (c.path :> c.content[1]) @@ files
        /\ written' = written \cup {[drop |-> d, chain |-> n, sub |-> c.sub,
                                     file |-> c.file, path |-> c.path,
                                     content |-> c.content[1],
                                     existed |-> c.path \in DOMAIN files,
                                     sawFile |-> c.sawFile]}
        /\ ApplyChainStep(d, n,
              IF c.sub = 0 /\ ~mats[d][n].multi
              THEN EndChain(renamed, 1)
              ELSE LoopFrom(renamed, n, c.sub + 1, IsGltf(asset)))
        /\ UNCHANGED <<asset, drops, cursor, meshes, skeletons, transformNodes,
                       particleSystems, textureFiles>>
        /\ UNCHANGED nonMeshVars

\* `await GLTFTools.TexturesToFiles(...)` resolves for call i of material n of drop d:
\* the texture files are on disk, then `await this.props.editor.assetsBrowser.refresh()`
TexturesToFilesResolves(d, n, i) ==
    /\ ~Busy
    /\ i \in DOMAIN texPending[d][n]
    /\ textureFiles' = IF texPending[d][n][i] THEN textureFiles \cup {<<d, n>>} ELSE textureFiles
    /\ texPending' = [texPending EXCEPT ![d][n] =
                         [j \in 1..(Len(@) - 1) |-> IF j < i THEN @[j] ELSE @[j + 1]]]
    /\ browserRefreshes' = browserRefreshes + 1
    /\ UNCHANGED <<asset, drops, cursor, meshes, mats, skeletons, transformNodes,
                   particleSystems, chain, files, written>>
    /\ UNCHANGED nonMeshVars

-----------------------------------------------------------------------------
(* MeshItemHandler: the _configure* calls of onDropInPreview *)

\* _configureMeshes: one iteration of its forEach, or its return
configureMeshes(d) ==
    /\ drops[d].pc = "meshes"
    /\ IF cursor > Len(meshes[d])
       THEN /\ Advance(d, <<"meshes">>)
            /\ UNCHANGED <<meshes, mats, chain, texPending, browserRefreshes>>
       ELSE LET m == meshes[d][cursor]
                r == IF m.material # NoMaterial
                     THEN configureMaterial(mats[d], d, m.material, IsGltf(asset))
                     ELSE [ms |-> mats[d], ch |-> IdleChain, tex |-> <<>>, refresh |-> 0]
            IN  /\ meshes' = [meshes EXCEPT ![d][cursor] =
                       [m EXCEPT !.basePoseMatrix = TRUE,
                                 !.shifted = ~m.parent /\ drops[d].pick,
                                 !.originalSourceFile = IF m.isMesh THEN <<[id |-> m.id]>> ELSE @,
                                 !.geometryIds = IF m.isMesh /\ m.geometry THEN @ + 1 ELSE @,
                                 !.id = RandomId(Tag(d, "mesh", ToString(cursor)), m.randomIds),
                                 !.randomIds = @ + 1]]
                /\ IF m.material # NoMaterial
                   THEN ApplyChainStep(d, m.material, r)
                   ELSE UNCHANGED <<mats, chain, texPending, browserRefreshes>>
                /\ cursor' = cursor + 1
                /\ UNCHANGED drops
    /\ UNCHANGED <<asset, skeletons, transformNodes, particleSystems, files, textureFiles, written>>
    /\ UNCHANGED nonMeshVars

\* _configureTransformNodes
configureTransformNodes(d) ==
    /\ drops[d].pc = "transformNodes"
    /\ transformNodes' = [transformNodes EXCEPT ![d] =
          [i \in DOMAIN transformNodes[d] |->
              LET tn == transformNodes[d][i]
              IN  [tn EXCEPT !.id = RandomId(Tag(d, "node", ToString(i)), 0),
                             !.shifted = ~tn.parent /\ drops[d].pick]]]
    /\ Advance(d, <<"transformNodes">>)
    /\ UNCHANGED <<asset, meshes, mats, skeletons, particleSystems, chain, texPending,
                   files, textureFiles, browserRefreshes, written>>
    /\ UNCHANGED nonMeshVars

\* the ids of scene.skeletons: the skeletons of every import are part of the scene
SceneSkeletonIds == UNION {{skeletons[d][i].id : i \in DOMAIN skeletons[d]} : d \in Drops}

\* scene.getSkeletonById(id) # null: some skeleton's id is strictly equal to the number id
getSkeletonById(id) == NumberId(id) \in SceneSkeletonIds

\* faulty variant: the search loop is left out
FreeSkeletonIdNoSearch(id) == id

RECURSIVE FreeSkeletonId(_)
\* let id = start; while (scene.getSkeletonById(id)) { id++; }
FreeSkeletonId(id) == IF getSkeletonById(id) THEN FreeSkeletonId(id + 1) ELSE id

\* _configureSkeletons: one iteration of its forEach, or its return
configureSkeletons(d) ==
    /\ drops[d].pc = "skeletons"
    /\ IF cursor > Len(skeletons[d])
       THEN /\ Advance(d, <<"skeletons">>)
            /\ UNCHANGED skeletons
       ELSE /\ skeletons' = [skeletons EXCEPT ![d][cursor] =
                   [@ EXCEPT !.id = NumberId(FreeSkeletonId(0)),
                             !.configured = TRUE,
                             !.bones = [b \in DOMAIN @ |->
                                 LET newId == RandomId(Tag(d, "bone", ToString(cursor) \o "." \o ToString(b)), 0)
                                 IN  [@[b] EXCEPT !.id = newId, !.originalId = <<newId>>]]]]
            /\ cursor' = cursor + 1
            /\ UNCHANGED drops
    /\ UNCHANGED <<asset, meshes, mats, transformNodes, particleSystems, chain, texPending,
                   files, textureFiles, browserRefreshes, written>>
    /\ UNCHANGED nonMeshVars

\* _configureParticleSystems
configureParticleSystems(d) ==
    /\ drops[d].pc = "particleSystems"
    /\ particleSystems' = [particleSystems EXCEPT ![d] =
          [i \in DOMAIN @ |-> [@[i] EXCEPT !.id = RandomId(Tag(d, "particles", ToString(i)), 0)]]]
    /\ Advance(d, <<"particleSystems">>)
    /\ UNCHANGED <<asset, meshes, mats, skeletons, transformNodes, chain, texPending,
                   files, textureFiles, browserRefreshes, written>>
    /\ UNCHANGED nonMeshVars

\* editor.graph.refresh(); editor.assets.refresh(); onDropInPreview returns
refreshEditor(d) ==
    /\ drops[d].pc = "refresh"
    /\ Advance(d, <<"graph.refresh", "assets.refresh">>)
    /\ UNCHANGED <<asset, meshes, mats, skeletons, transformNodes, particleSystems, chain,
                   texPending, files, textureFiles, browserRefreshes, written>>
    /\ UNCHANGED nonMeshVars

Next ==
    \/ onDropInPreview
    \/ \E d \in Drops : loaderAddsObjects(d)
    \/ \E d \in Drops : ImportMeshAsyncRejects(d)
    \/ \E d \in Drops : ImportMeshAsyncResolves(d)
    \/ \E d \in Drops : configureMeshes(d)
    \/ \E d \in Drops : configureTransformNodes(d)
    \/ \E d \in Drops : configureSkeletons(d)
    \/ \E d \in Drops : configureParticleSystems(d)
    \/ \E d \in Drops : refreshEditor(d)
    \/ \E d \in Drops : \E n \in DOMAIN chain[d] : pathExistsResolves(d, n)
    \/ \E d \in Drops : \E n \in DOMAIN chain[d] : writeJSONResolves(d, n)
    \/ \E d \in Drops : \E n \in DOMAIN texPending[d] :
          \E i \in DOMAIN texPending[d][n] : TexturesToFilesResolves(d, n, i)


-----------------------------------------------------------------------------
(* Claims C2, C3, C4 *)

\* the _configureMaterial calls: one per drop and material
Chains == UNION {{<<d, n>> : n \in DOMAIN chain[d]} : d \in Drops}

ChainOf(c) == chain[c[1]][c[2]]

\* no _createMaterialFile call is waiting for pathExists or writeJSON
NoPendingFileCall == \A c \in Chains : ChainOf(c).pc \in {"idle", "done"}

\* C2 (as stated): a material file that already exists is never overwritten: writeJSON
\* is executed for a path only when no file exists at that path at the moment of the
\* write, so each material path is written at most once.
C2_NeverOverwritten ==
    /\ \A w \in written : ~w.existed
    /\ \A w1, w2 \in written : w1.path = w2.path => w1 = w2

\* C2 (amended): writeJSON is executed for a path only when no file existed at that path
\* when the pathExists check of the same _createMaterialFile call answered; a file that
\* another pending call creates between that check and the write is overwritten.
C2_WriteOnlyAfterAbsentCheck ==
    /\ \A w \in written : ~w.sawFile
    /\ \A c \in Chains : ChainOf(c).pc = "writeJSON" => ~ChainOf(c).sawFile

\* C2 witness: a write whose check saw no file, performed on a path where a file had
\* appeared in between.
C2_Witness == \E w \in written : w.existed /\ ~w.sawFile

\* the fields of a material other than metadata.editorDone, metadata.editorPath and the
\* names/urls of its textures
FrameOf(m) == [m EXCEPT !.editorDone = FALSE, !.editorPath = <<>>,
                        !.texDir = "loader", !.texDone = FALSE]

\* the _configureMaterial call of material n of drop d found its material file on disk
\* when it was made, and has returned
ReturnedEarly(d, n) == chain[d][n].pc = "done" /\ chain[d][n].existedAtCall

\* the two steps of such a call, and what each may change
C3_StepFrame ==
    [][\A d \in Drops : \A n \in DOMAIN chain[d] :
        LET c == chain[d][n]
            c2 == chain'[d][n]
        IN  /\ (c.pc = "idle" /\ c2.pc = "pathExists" /\ c2.existedAtCall) =>
                  /\ files' = files /\ written' = written
                  /\ FrameOf(mats'[d][n]) = FrameOf(mats[d][n])
                  /\ mats'[d][n].editorDone /\ mats'[d][n].editorPath # <<>>
                  /\ \A k \in DOMAIN mats[d] \ {n} : mats'[d][k] = mats[d][k]
                  /\ \A e \in Drops \ {d} : mats'[e] = mats[e]
            /\ (c.pc = "pathExists" /\ c.sub = 0 /\ c.existedAtCall /\ c2 # c) =>
                  /\ c2.pc = "done" /\ ~c2.refreshed
                  /\ files' = files /\ written' = written /\ mats' = mats
                  /\ browserRefreshes' = browserRefreshes
      ]_vars

\* C3 (as stated): a _configureMaterial call on a material whose material file already
\* exists returns early without writing any file: neither a material file nor, through
\* the _configureMaterialTextures call it makes, a texture file.
C3_NoFileWritten ==
    \A d \in Drops : \A n \in DOMAIN chain[d] :
        ReturnedEarly(d, n) =>
            /\ \A w \in written : ~(w.drop = d /\ w.chain = n)
            /\ <<d, n>> \notin textureFiles

\* C3 (amended): a _configureMaterial call on a material whose material file already
\* exists changes, when it is made, only metadata.editorDone, metadata.editorPath and
\* the textures of that material (no other material, no material file); when its
\* pathExists check answers it returns, writing no material file and changing no
\* material (id, originalSourceFile and sub-materials included). For a .glb/.gltf asset
\* the GLTFTools.TexturesToFiles call it started still writes the texture files.
C3_ExistingFileReturnsEarly ==
    /\ [](\A d \in Drops : \A n \in DOMAIN chain[d] :
            ReturnedEarly(d, n) =>
                /\ \A w \in written : ~(w.drop = d /\ w.chain = n)
                /\ ~chain[d][n].refreshed
                /\ mats[d][n].editorDone /\ mats[d][n].editorPath # <<>>)
    /\ C3_StepFrame

\* C3 witness: the call for a MultiMaterial whose file existed has returned: the material
\* kept the loader's id, has no originalSourceFile, and no sub-material was touched.
C3_Witness ==
    \E d \in Drops : \E n \in DOMAIN chain[d] :
        /\ chain[d][n].pc = "done" /\ chain[d][n].existedAtCall
        /\ mats[d][n].multi
        /\ mats[d][n].editorDone /\ mats[d][n].editorPath # <<>>
        /\ mats[d][n].id = mats[d][n].loaderId /\ mats[d][n].originalSourceFile = <<>>
        /\ \A k \in DOMAIN mats[d] \ {n} : mats[d][k].id = mats[d][k].loaderId

-----------------------------------------------------------------------------
(* Claims C6 to C10 *)

FullTrace == <<"stopAllAnimations", "meshes", "transformNodes", "skeletons",
               "particleSystems", "graph.refresh", "assets.refresh">>

\* nothing the loader created for drop d has been configured
NothingConfigured(d) ==
    /\ \A i \in DOMAIN meshes[d] :
          /\ meshes[d][i].id = meshes[d][i].loaderId /\ meshes[d][i].randomIds = 0
          /\ ~meshes[d][i].basePoseMatrix /\ ~meshes[d][i].shifted
          /\ meshes[d][i].originalSourceFile = <<>> /\ meshes[d][i].geometryIds = 0
    /\ \A i \in DOMAIN transformNodes[d] :
          transformNodes[d][i].id[1] # "#" /\ ~transformNodes[d][i].shifted
    /\ \A i \in DOMAIN skeletons[d] :
          /\ ~skeletons[d][i].configured
          /\ \A b \in DOMAIN skeletons[d][i].bones :
                skeletons[d][i].bones[b].id = skeletons[d][i].bones[b].loaderId
    /\ \A i \in DOMAIN particleSystems[d] : particleSystems[d][i].id[1] # "#"
    /\ \A n \in DOMAIN mats[d] :
          /\ mats[d][n] = AssetMaterials(asset)[n]
          /\ chain[d][n] = IdleChain
          /\ texPending[d][n] = <<>>
    /\ \A w \in written : w.drop # d

\* C6: when SceneLoader.ImportMeshAsync fails, onDropInPreview has done nothing but
\* scene.stopAllAnimations(): nothing is configured, no material file is written, and
\* neither graph.refresh nor assets.refresh is called. When the load succeeds and
\* onDropInPreview returns, meshes, transform nodes, skeletons and particle systems have
\* been configured in that order and then graph.refresh and assets.refresh were each
\* called exactly once; before that no refresh is called.
C6_FailureConfiguresNothing ==
    \A d \in Drops :
        /\ drops[d].pc = "failed" =>
              /\ drops[d].trace = <<"stopAllAnimations">>
              /\ NothingConfigured(d)
        /\ drops[d].pc = "done" => drops[d].trace = FullTrace
        /\ drops[d].pc \notin {"done", "failed"} =>
              /\ Len(drops[d].trace) <= 5
              /\ drops[d].trace = SubSeq(FullTrace, 1, Len(drops[d].trace))

\* C6 witness: one import failed after the loader had created its objects, another one
\* succeeded and returned.
C6_Witness ==
    \E d, e \in Drops :
        /\ drops[d].pc = "failed" /\ meshes[d] # <<>>
        /\ drops[e].pc = "done" /\ meshes[e][1].randomIds = 1

\* C7: once the _configureMaterial call of a MultiMaterial whose own file was created has
\* ended, every non-null sub-material has a file of its own holding the sub-material's
\* serialization, has its previous id in originalSourceFile and has a fresh random id.
C7_SubMaterialsPersisted ==
    \A d \in Drops : \A n \in DOMAIN mats[d] :
        (/\ mats[d][n].multi
         /\ chain[d][n].pc = "done"
         /\ \E w \in written : w.drop = d /\ w.chain = n /\ w.sub = 0) =>
            \A k \in DOMAIN mats[d][n].subs :
                LET m == mats[d][n].subs[k]
                IN  m # NoMaterial =>
                      /\ \E w \in written : w.drop = d /\ w.content.material = m
                      /\ mats[d][m].originalSourceFile # <<>>
                      /\ mats[d][m].randomIds > 0

\* C8: the original identifier recorded for an imported mesh, material or bone is the id
\* the loader gave the object, and it differs from the object's new id.
C8_OriginalIdIsLoaderId ==
    \A d \in Drops :
        /\ \A i \in DOMAIN meshes[d] :
              meshes[d][i].originalSourceFile # <<>> =>
                  /\ meshes[d][i].originalSourceFile[1].id = meshes[d][i].loaderId
                  /\ meshes[d][i].originalSourceFile[1].id # meshes[d][i].id
        /\ \A n \in DOMAIN mats[d] :
              mats[d][n].originalSourceFile # <<>> =>
                  /\ mats[d][n].originalSourceFile[1].id = mats[d][n].loaderId
                  /\ mats[d][n].originalSourceFile[1].id # mats[d][n].id
        /\ \A i \in DOMAIN skeletons[d] : \A b \in DOMAIN skeletons[d][i].bones :
              LET bone == skeletons[d][i].bones[b]
              IN  bone.originalId # <<>> =>
                      /\ bone.originalId[1] = bone.loaderId
                      /\ bone.originalId[1] # bone.id

\* the skeletons of the scene: drop and position in that drop's result
SceneSkeletons == UNION {{<<d, i>> : i \in DOMAIN skeletons[d]} : d \in Drops}

\* the smallest non-negative integer that is the id of no skeleton of the scene
SmallestFreeId ==
    CHOOSE k \in 0..Cardinality(SceneSkeletons) :
        /\ NumberId(k) \notin SceneSkeletonIds
        /\ \A j \in 0..(k - 1) : NumberId(j) \in SceneSkeletonIds

\* C9: _configureSkeletons gives each imported skeleton the smallest non-negative integer
\* that is the id of no skeleton of the scene when it is assigned; when it returns, no
\* imported skeleton shares its id with any other skeleton of the scene (the imported
\* ones included).
C9_SkeletonIdsFresh ==
    /\ [][\A s \in SceneSkeletons :
            (~skeletons[s[1]][s[2]].configured /\ skeletons'[s[1]][s[2]].configured) =>
                /\ \E k \in 0..Cardinality(SceneSkeletons) : NumberId(k) \notin SceneSkeletonIds
                /\ skeletons'[s[1]][s[2]].id = NumberId(SmallestFreeId)
         ]_vars
    /\ [](\A d \in Drops : drops[d].pc = "particleSystems" =>
            \A i \in DOMAIN skeletons[d] : \A t \in SceneSkeletons \ {<<d, i>>} :
                skeletons[t[1]][t[2]].id # skeletons[d][i].id)

\* C9 witness: _configureSkeletons has returned for an import of two skeletons while the
\* scene holds other skeletons; the two got smallest free ids above those in use.
C9_Witness ==
    \E d \in Drops :
        /\ drops[d].pc = "particleSystems"
        /\ Len(skeletons[d]) = 2
        /\ Cardinality(SceneSkeletons) = 4
        /\ skeletons[d][1].id = NumberId(3)
        /\ skeletons[d][2].id = NumberId(4)

\* C10: each material object is configured at most once: it gets a random id at most
\* once and at most one material file is written for it.
C10_ConfiguredAtMostOnce ==
    \A d \in Drops : \A n \in DOMAIN mats[d] :
        /\ mats[d][n].randomIds <= 1
        /\ Cardinality({w \in written : w.drop = d /\ w.content.material = n}) <= 1

-----------------------------------------------------------------------------
-----------------------------------------------------------------------------
(* C11 *)

\* the _configureMaterial call of material n of drop d has written a material file
WroteFile(d, n) == \E w \in written : w.drop = d /\ w.chain = n

\* C11: every _configureMaterial call that has created at least one material file and
\* has returned has called editor.assetsBrowser.refresh() at its end, after its last
\* file write; this for plain materials and for MultiMaterials, a null entry in
\* subMaterials included
C11_RefreshAfterLastWrite ==
    \A c \in Chains :
        (ChainOf(c).pc = "done" /\ WroteFile(c[1], c[2])) => ChainOf(c).refreshed

\* the same for the calls whose material has no null entry among its sub-materials
C11_RefreshUnlessNullEntry ==
    \A c \in Chains :
        (/\ ChainOf(c).pc = "done"
         /\ WroteFile(c[1], c[2])
         /\ \A k \in DOMAIN mats[c[1]][c[2]].subs : mats[c[1]][c[2]].subs[k] # NoMaterial)
        => ChainOf(c).refreshed

Init == ConsoleInit /\ PreviewInit /\ MeshInit

Spec == Init /\ [][Next]_vars

ConsoleSpec == Init /\ [][ConsoleNext]_vars

PreviewSpec == Init /\ [][PreviewNext]_vars

=============================================================================
